---- MODULE Spec2Model ----
(***************************************************************************)
(* Model of the TGS salt identification training script.                   *)
(*                                                                         *)
(*   src/model/metric.py  cal_iou, get_iou_score  (pure tensor functions)  *)
(*   src/train.py         train, test, __main__   (epoch driver)           *)
(*                                                                         *)
(* Tensors are contiguous row-major arrays: a shape and a flat sequence of *)
(* elements, as torch stores them.  Dimension k of the source (0-based) is *)
(* position k+1 of the shape sequence.  An IoU value is kept as the exact  *)
(* fraction <<numerator, denominator>>; the metric's fractions are in      *)
(* units of eps = 1e-6, so (i + eps)/(u + eps) is                          *)
(* <<i*EpsInv + 1, u*EpsInv + 1>>.                                         *)
(* The model assumes a CUDA device is present, so that `.cuda()` at        *)
(* metric.py:21 succeeds.  What the script logs (wandb.log, the mask       *)
(* lists, the timing lines) feeds no decision and is left out; the model,  *)
(* the loss and the optimizer are opaque and return any value of a small   *)
(* set.                                                                    *)
(***************************************************************************)
EXTENDS Integers, Sequences, FiniteSets, TLC

\* ------------------------------------------------------------------ bounds
MaxB == 2
MaxH == 2
MaxW == 2
MaxElems == 8
\* at most MaxFg foreground pixels in a mask, and at most MaxFg non-negative
\* logits in a logit tensor
MaxFg == 2
\* the driver: epoch count (--epoch) and batches per loader
MaxEpochs == 2
MaxBatches == 2

\* 1/eps of metric.py:15 and metric.py:25
EpsInv == 1000000

\* Element values.  The sign of a logit is all the metric reads (outputs<0.):
\* logits are -1 or the boundary value 0, and any positive logit takes the
\* branch 0 takes.  Masks are binary, 0 or 1.

\* metric: the two arguments of a call and what each function returned
VARIABLES outputs, labels, res_cal, res_get

mvars == <<outputs, labels, res_cal, res_get>>

\* driver (train.py): configuration, control position, the model, the locals
\* of the running step, the values the steps returned, the driver's best
\* score and the two export files
VARIABLES epochs, n_train, n_valid, pc, epoch, i, training, params, iou,
          running_loss, train_loss, train_iou, test_loss, test_iou, best_iou,
          best_accuracy, onnx_file, pth_file, err

\* history: export attempts and outcome of the current epoch, the highest
\* training IoU of the finished epochs, the steps run so far, and whether the
\* last export replaced a snapshot of a higher validation IoU
VARIABLES attempts, export_result, max_train, trace, regressed

cfgvars == <<epochs, n_train, n_valid>>
stepvars == <<i, iou, running_loss>>
retvars == <<train_loss, train_iou, test_loss, test_iou>>
filevars == <<onnx_file, pth_file, regressed>>
dvars == <<cfgvars, pc, epoch, training, params, stepvars, retvars, best_iou,
           best_accuracy, filevars, err, attempts, export_result, max_train,
           trace>>

vars == <<mvars, dvars>>

\* ------------------------------------------------------- tensor primitives
RECURSIVE Prod(_)
Prod(s) == IF s = <<>> THEN 1 ELSE Head(s) * Prod(Tail(s))

Numel(shape) == Prod(shape)

\* number of elements one step along dimension k skips
Stride(shape, k) == Prod(SubSeq(shape, k + 1, Len(shape)))

\* coordinate (1-based) along dimension k of the element at flat position p
Coord(shape, p, k) == (((p - 1) \div Stride(shape, k)) % shape[k]) + 1

RECURSIVE FlatFrom(_, _, _)
FlatFrom(shape, idx, k) ==
    IF k > Len(shape) THEN 0
    ELSE (idx[k] - 1) * Stride(shape, k) + FlatFrom(shape, idx, k + 1)

\* flat position (1-based) of the element at multi-index idx
Flat(shape, idx) == 1 + FlatFrom(shape, idx, 1)

Tensor(shape, data) == [shape |-> shape, data |-> data]

NoTensor == Tensor(<<0>>, <<>>)

\* Tensor.squeeze(): every dimension of size 1 is removed
SqueezeAll(t) == Tensor(SelectSeq(t.shape, LAMBDA d : d # 1), t.data)

\* Tensor.squeeze(1): dimension 1 is removed when its size is 1
SqueezeDim1(t) ==
    IF Len(t.shape) >= 2 /\ t.shape[2] = 1
    THEN Tensor(<<t.shape[1]>> \o SubSeq(t.shape, 3, Len(t.shape)), t.data)
    ELSE t

\* Tensor.bool(): non-zero is True
ToBool(t) == Tensor(t.shape, [p \in 1..Len(t.data) |-> t.data[p] # 0])

\* mutant of WhereNeg: the comparison is <= and a logit of 0 is background
WhereNonPos(t) ==
    Tensor(t.shape, [p \in 1..Len(t.data) |-> IF t.data[p] <= 0 THEN 0 ELSE 1])

\* torch.where(outputs<0., 0, 1)
WhereNeg(t) ==
    Tensor(t.shape, [p \in 1..Len(t.data) |-> IF t.data[p] < 0 THEN 0 ELSE 1])

MaxOf2(a, b) == IF a >= b THEN a ELSE b

\* size of dimension j counted from the right (1 = last), 1 when absent
DimR(shape, j) == IF j <= Len(shape) THEN shape[Len(shape) - j + 1] ELSE 1

\* torch broadcasting rule: aligned from the right, sizes equal or one is 1
Broadcastable(sa, sb) ==
    \A j \in 1..MaxOf2(Len(sa), Len(sb)) :
        \/ DimR(sa, j) = DimR(sb, j)
        \/ DimR(sa, j) = 1
        \/ DimR(sb, j) = 1

BroadcastShape(sa, sb) ==
    LET r == MaxOf2(Len(sa), Len(sb))
    IN  [k \in 1..r |-> MaxOf2(DimR(sa, r - k + 1), DimR(sb, r - k + 1))]

\* t expanded to the broadcast shape s: the element at a position of s is
\* the element of t at the same coordinates, 1 along t's dimensions of size 1
BroadcastTo(t, s) ==
    LET off == Len(s) - Len(t.shape)
        src(p) == Flat(t.shape, [k \in 1..Len(t.shape) |->
                    IF t.shape[k] = 1 THEN 1 ELSE Coord(s, p, k + off)])
    IN  IF s = t.shape THEN t
        ELSE Tensor(s, [p \in 1..Numel(s) |-> t.data[src(p)]])

\* number of True elements of sample b of a rank-3 boolean tensor:
\* .float().sum((1, 2))
SumHW(shape, data, b) ==
    LET hw == shape[2] * shape[3]
    IN  Cardinality({p \in ((b - 1) * hw + 1)..(b * hw) : data[p]})

\* mutant of IouFrac: numerator and denominator exchanged
IouFracSwapped(inter, union) == <<union * EpsInv + 1, inter * EpsInv + 1>>

\* (intersection + 1e-6) / (union + 1e-6) as an exact fraction
IouFrac(inter, union) == <<inter * EpsInv + 1, union * EpsInv + 1>>

Ok(vals) == [err |-> "none", iou |-> vals]
Raise(e) == [err |-> e, iou |-> <<>>]
Pending == [err |-> "pending", iou |-> <<>>]

\* lines 13-15 / 23-25, common to the two functions: A & B and A | B
\* broadcast (RuntimeError when they cannot), sum((1,2)) needs dimensions 1
\* and 2 (IndexError otherwise), then the smoothed division per sample.
\* With a channel dimension of 1 the operands have rank <= 3.
IouOf(A, B) ==
    IF ~Broadcastable(A.shape, B.shape) THEN Raise("RuntimeError")
    ELSE LET s == BroadcastShape(A.shape, B.shape)
             n == Numel(s)
             ea == BroadcastTo(A, s).data
             eb == BroadcastTo(B, s).data
             land == [p \in 1..n |-> ea[p] /\ eb[p]]
             lor == [p \in 1..n |-> ea[p] \/ eb[p]]
         IN  IF Len(s) < 3 THEN Raise("IndexError")
             ELSE Ok([b \in 1..s[1] |->
                        IouFrac(SumHW(s, land, b), SumHW(s, lor, b))])

cal_iou(o, l) == IouOf(ToBool(SqueezeAll(l)), ToBool(SqueezeAll(WhereNeg(o))))

get_iou_score(o, l) ==
    IouOf(ToBool(SqueezeDim1(l)), ToBool(SqueezeDim1(WhereNeg(o))))

\* ----------------------------------------------------------------- driver
\* Fractions <<numerator, denominator>> with a positive denominator.
FracLt(a, b) == a[1] * b[2] < b[1] * a[2]

RECURSIVE SumSeq(_)
SumSeq(q) == IF q = <<>> THEN 0 ELSE Head(q) + SumSeq(Tail(q))

\* np.mean(iou) of a non-empty list of batch means, each kept in halves
Mean(q) == <<SumSeq(q), Len(q) * 2>>

\* train.py:165
Sentinel == <<-1, 1>>

NoValue == <<0, 1>>
NoFile == [params |-> -1, valid_iou |-> NoValue]

\* get_iou_score(predict, mask).mean() of a batch, in halves: 1/2 or 1
IoUVals == {1, 2}
\* what the opaque collaborators return: a batch's loss, which no decision
\* of the driver reads, and the parameter value an optimizer step leaves
LossVals == {1}
ParamVals == {0, 1}

\* the state before the loop of train.py:167 for a configuration
DriverAt(n, nt, nv) ==
    /\ epochs = n
    /\ n_train = nt
    /\ n_valid = nv
    /\ pc = "for"
    /\ epoch = 0
    /\ i = 0
    /\ training = TRUE
    /\ params = 0
    /\ iou = <<>>
    /\ running_loss = 0
    /\ train_loss = NoValue
    /\ train_iou = NoValue
    /\ test_loss = NoValue
    /\ test_iou = NoValue
    /\ best_iou = Sentinel
    /\ best_accuracy = Sentinel
    /\ onnx_file = NoFile
    /\ pth_file = NoFile
    /\ regressed = FALSE
    /\ err = "none"
    /\ attempts = 0
    /\ export_result = "none"
    /\ max_train = Sentinel
    /\ trace = <<>>

DriverIdle == DriverAt(0, 0, 0)

MetricIdle ==
    /\ outputs = NoTensor
    /\ labels = NoTensor
    /\ res_cal = Pending
    /\ res_get = Pending

Init ==
    /\ MetricIdle
    /\ \E n \in 0..MaxEpochs, nt \in 0..MaxBatches, nv \in 0..MaxBatches :
            DriverAt(n, nt, nv)

\* mutant of LoopContinues: one epoch too many
LoopContinuesInclusive(e, n) == e <= n

\* range(epochs) yields another epoch
LoopContinues(e, n) == e < n

\* train.py:60 optimizer.step(): the optimizer's new parameter value
OptimizerStep(old, new) == new

\* mutant of TestBatchParams: the validation batch steps the optimizer
TestBatchSteps(old, new) == new

\* the parameters after one batch of test(): under torch.no_grad(), with no
\* backward and no optimizer step
TestBatchParams(old, new) == old

\* mutant of ShouldExport: >= in place of >
ShouldExportOnTie(mean_iou, best) == ~FracLt(mean_iou, best)

\* train.py:98
ShouldExport(mean_iou, best) == FracLt(best, mean_iou)

\* mutant of NewBest: the comparison is lost
NewBestAlways(best, t_iou) == t_iou

\* train.py:176-177
NewBest(best, t_iou) == IF FracLt(best, t_iou) THEN t_iou ELSE best

\* mutant of TryExport: no try/except around the two calls
TryExportUncaught(outcome, snap, onnx, pth) ==
    [err |-> IF outcome = "ok" THEN "none" ELSE "RuntimeError",
     onnx |-> IF outcome = "onnx_raises" THEN onnx ELSE snap,
     pth |-> IF outcome = "ok" THEN snap ELSE pth]

\* train.py:100-104.  outcome is what the two export calls do: "ok",
\* "onnx_raises" (torch.onnx.export raises, torch.save is not reached) or
\* "save_raises" (the ONNX file is written, torch.save raises).  The bare
\* except swallows either exception.
TryExport(outcome, snap, onnx, pth) ==
    [err |-> "none",
     onnx |-> IF outcome = "onnx_raises" THEN onnx ELSE snap,
     pth |-> IF outcome = "ok" THEN snap ELSE pth]

ExportOutcomes == {"ok", "onnx_raises", "save_raises"}

\* a step returns: its locals i, iou and running_loss are gone
Return ==
    /\ i' = 0
    /\ iou' = <<>>
    /\ running_loss' = 0

FracMax(a, b) == IF FracLt(a, b) THEN b ELSE a

\* train.py:167, 169, 41-43: the loop yields an epoch and train() starts
EpochBegin ==
    /\ pc = "for"
    /\ LoopContinues(epoch, epochs)
    /\ pc' = "train"
    /\ training' = TRUE
    /\ i' = 0
    /\ iou' = <<>>
    /\ running_loss' = 0
    /\ attempts' = 0
    /\ export_result' = "none"
    /\ trace' = Append(trace, <<"train", epoch>>)
    /\ UNCHANGED <<cfgvars, epoch, params, retvars, best_iou, best_accuracy,
                   filevars, err, max_train, mvars>>

\* train.py:167: range(epochs) is exhausted
Finish ==
    /\ pc = "for"
    /\ ~LoopContinues(epoch, epochs)
    /\ pc' = "Finished"
    /\ UNCHANGED <<cfgvars, epoch, training, params, stepvars, retvars,
                   best_iou, best_accuracy, filevars, err, attempts,
                   export_result, max_train, trace, mvars>>

\* train.py:44-66: one training batch
TrainBatch ==
    /\ pc = "train"
    /\ i < n_train
    /\ \E v \in IoUVals, l \in LossVals, p \in ParamVals :
        /\ iou' = Append(iou, v)
        /\ running_loss' = running_loss + l
        /\ params' = OptimizerStep(params, p)
    /\ i' = i + 1
    /\ UNCHANGED <<cfgvars, pc, epoch, training, retvars, best_iou,
                   best_accuracy, filevars, err, attempts, export_result,
                   max_train, trace, mvars>>

\* a collaborator (loader, model, loss, metric) raises inside a batch of
\* either step: nothing catches it and the run halts
BatchRaises ==
    /\ pc \in {"train", "test"}
    /\ i < (IF pc = "train" THEN n_train ELSE n_valid)
    /\ err' = "Exception"
    /\ pc' = "halted"
    /\ UNCHANGED <<cfgvars, epoch, training, params, stepvars, retvars,
                   best_iou, best_accuracy, filevars, attempts,
                   export_result, max_train, trace, mvars>>

\* train.py:68-72, 172, 75-77: train() returns and test() starts; with an
\* empty loader line 69 divides by len(trainloader) = 0
TrainEnd ==
    /\ pc = "train"
    /\ i = n_train
    /\ IF n_train = 0
       THEN /\ err' = "ZeroDivisionError"
            /\ pc' = "halted"
            /\ UNCHANGED <<training, stepvars, retvars, trace>>
       ELSE /\ train_iou' = Mean(iou)
            /\ train_loss' = <<running_loss, n_train>>
            /\ pc' = "test"
            /\ training' = FALSE
            /\ i' = 0
            /\ iou' = <<>>
            /\ running_loss' = 0
            /\ trace' = Append(trace, <<"test", epoch>>)
            /\ UNCHANGED <<test_loss, test_iou, err>>
    /\ UNCHANGED <<cfgvars, epoch, params, best_iou, best_accuracy, filevars,
                   attempts, export_result, max_train, mvars>>

\* train.py:79-92: one validation batch
TestBatch ==
    /\ pc = "test"
    /\ i < n_valid
    /\ \E v \in IoUVals, l \in LossVals, p \in ParamVals :
        /\ iou' = Append(iou, v)
        /\ running_loss' = running_loss + l
        /\ params' = TestBatchParams(params, p)
    /\ i' = i + 1
    /\ UNCHANGED <<cfgvars, pc, epoch, training, retvars, best_iou,
                   best_accuracy, filevars, err, attempts, export_result,
                   max_train, trace, mvars>>

\* train.py:94-106, 173: the means, the export and the return of test();
\* with an empty loader line 94 divides by len(testloader) = 0
TestEnd ==
    /\ pc = "test"
    /\ i = n_valid
    /\ IF n_valid = 0
       THEN /\ err' = "ZeroDivisionError"
            /\ pc' = "halted"
            /\ UNCHANGED <<stepvars, retvars, filevars, attempts,
                           export_result, trace>>
       ELSE LET mean_iou == Mean(iou)
                snap == [params |-> params, valid_iou |-> mean_iou]
            IN  IF ShouldExport(mean_iou, best_iou)
                THEN \E outcome \in ExportOutcomes :
                      LET r == TryExport(outcome, snap, onnx_file, pth_file)
                      IN  /\ attempts' = attempts + 1
                          /\ export_result' = outcome
                          /\ onnx_file' = r.onnx
                          /\ pth_file' = r.pth
                          /\ regressed' = (/\ r.pth # pth_file
                                            /\ pth_file # NoFile
                                            /\ FracLt(mean_iou,
                                                      pth_file.valid_iou))
                          /\ IF r.err = "none"
                             THEN /\ test_loss' = <<running_loss, n_valid>>
                                  /\ test_iou' = mean_iou
                                  /\ Return
                                  /\ pc' = "update"
                                  /\ trace' = Append(trace, <<"update", epoch>>)
                                  /\ UNCHANGED <<err, train_loss, train_iou>>
                             ELSE /\ err' = r.err
                                  /\ pc' = "halted"
                                  /\ UNCHANGED <<stepvars, retvars, trace>>
                ELSE /\ test_loss' = <<running_loss, n_valid>>
                     /\ test_iou' = mean_iou
                     /\ Return
                     /\ pc' = "update"
                     /\ trace' = Append(trace, <<"update", epoch>>)
                     /\ UNCHANGED <<err, train_loss, train_iou, filevars,
                                    attempts, export_result>>
    /\ UNCHANGED <<cfgvars, epoch, training, params, best_iou,
                   best_accuracy, max_train, mvars>>

\* train.py:176-178 and the step to the next epoch
UpdateBest ==
    /\ pc = "update"
    /\ best_iou' = NewBest(best_iou, train_iou)
    /\ best_accuracy' = IF FracLt(best_iou, train_iou)
                        THEN best_iou' ELSE best_accuracy
    /\ max_train' = FracMax(max_train, train_iou)
    /\ epoch' = epoch + 1
    /\ pc' = "for"
    /\ UNCHANGED <<cfgvars, training, params, stepvars, retvars, filevars,
                   err, attempts, export_result, trace, mvars>>

Next ==
    \/ EpochBegin
    \/ TrainBatch
    \/ TrainEnd
    \/ TestBatch
    \/ TestEnd
    \/ UpdateBest
    \/ BatchRaises
    \/ Finish

Spec == Init /\ [][Next]_vars

\* the script is one thread that runs until it returns or raises
FairSpec == Spec /\ WF_vars(Next)

\* ------------------------------------------------------------ metric spec
\* shapes (batch, 1, H, W)
Shapes ==
    {<<b, 1, h, w>> : b \in 1..MaxB, h \in 1..MaxH, w \in 1..MaxW}

BoundedShapes == {s \in Shapes : Numel(s) <= MaxElems}

\* the sets of at most k of the positions 1..n
RECURSIVE UpTo(_, _)
UpTo(k, n) ==
    IF k = 0 THEN {{}}
    ELSE LET less == UpTo(k - 1, n)
         IN  less \cup {S \cup {p} : S \in less, p \in 1..n}

\* tensors of a shape whose elements are off, except at most MaxFg that are on
TensorsOf(shape, off, on) ==
    {Tensor(shape, [p \in 1..Numel(shape) |-> IF p \in S THEN on ELSE off]) :
        S \in UpTo(MaxFg, Numel(shape))}

\* number of the dimensions batch, H, W in which two shapes differ
Mismatch(sa, sb) == Cardinality({k \in {1, 3, 4} : sa[k] # sb[k]})

\* a logit tensor and a mask whose shape is the logits' shape or differs
\* from it in one dimension
MetricInit ==
    /\ DriverIdle
    /\ \E so \in BoundedShapes :
        /\ outputs \in TensorsOf(so, -1, 0)
        /\ \E sl \in {s \in BoundedShapes : Mismatch(so, s) <= 1} :
                labels \in TensorsOf(sl, 0, 1)
    /\ res_cal = Pending
    /\ res_get = Pending

CalIou ==
    /\ res_cal = Pending
    /\ res_cal' = cal_iou(outputs, labels)
    /\ UNCHANGED <<outputs, labels, res_get, dvars>>

GetIouScore ==
    /\ res_get = Pending
    /\ res_get' = get_iou_score(outputs, labels)
    /\ UNCHANGED <<outputs, labels, res_cal, dvars>>

MetricNext == CalIou \/ GetIouScore

MetricSpec == MetricInit /\ [][MetricNext]_vars

\* ================================================================ claims
ExportFailed == {"onnx_raises", "save_raises"}

\* 1 when the condition holds, else 0
Count(cond) == IF cond THEN 1 ELSE 0

\* C1: in every epoch the export is triggered exactly once if the epoch's
\* training IoU strictly exceeds the running best score, and not at all if it
\* is equal or lower.  (The claim as stated; the code compares the validation
\* IoU.)
C1_ExportIffTrainImproves ==
    pc = "update" => attempts = Count(FracLt(best_iou, train_iou))

\* C2: the best score starts at the sentinel -1 and never decreases; it
\* changes only at the end of an epoch whose training IoU is strictly greater
\* than it, and is then exactly that training IoU.
C2_BestNeverDecreases ==
    /\ best_iou = Sentinel
    /\ [][/\ ~FracLt(best_iou', best_iou)
          /\ best_iou' # best_iou =>
                /\ pc = "update"
                /\ FracLt(best_iou, train_iou)
                /\ best_iou' = train_iou
          /\ (pc = "update" /\ FracLt(best_iou, train_iou)) =>
                best_iou' = train_iou]_vars

\* two epochs done, the second with a training IoU below the best score
C2_Witness ==
    /\ pc = "for"
    /\ epoch = 2
    /\ best_iou # Sentinel
    /\ FracLt(train_iou, best_iou)

\* C3: no step of the validation step changes the parameters, whether or not
\* it exports; the parameters change only in a batch of the training step.
C3_TestKeepsParams ==
    [][/\ pc = "test" => params' = params
       /\ params' # params => (pc = "train" /\ pc' = "train" /\ i' = i + 1)]_vars

\* a validation step of two batches has returned after a successful export,
\* with parameters the training step had changed
C3_Witness ==
    /\ pc = "update"
    /\ n_valid = 2
    /\ export_result = "ok"
    /\ params = 1
    /\ pth_file.params = 1

\* C4: when the export raises, the validation step still returns its
\* (loss, mean IoU) pair and raises nothing, and the driver then updates the
\* best score from the training IoU as in any epoch and goes on to the next
\* epoch.
C4_ExportFailureCaught ==
    [][/\ (pc = "test" /\ attempts' = attempts + 1
            /\ export_result' \in ExportFailed) =>
                /\ err' = "none"
                /\ pc' = "update"
                /\ test_iou' = Mean(iou)
                /\ test_loss' = <<running_loss, n_valid>>
                /\ best_iou' = best_iou
       /\ (pc = "update" /\ export_result \in ExportFailed) =>
                /\ err' = "none"
                /\ pc' = "for"
                /\ epoch' = epoch + 1
                /\ best_iou' = IF FracLt(best_iou, train_iou)
                               THEN train_iou ELSE best_iou
       /\ (pc = "for" /\ export_result \in ExportFailed /\ epoch < epochs) =>
                pc' = "train"]_vars

\* the second epoch is running after an export failure in the first, whose
\* training IoU became the best score
C4_Witness ==
    /\ pc = "test"
    /\ epoch = 1
    /\ err = "none"
    /\ onnx_file # NoFile
    /\ pth_file = NoFile
    /\ best_iou # Sentinel

\* C5: cal_iou and get_iou_score return the same per-sample IoU sequence for
\* every logit tensor (batch, 1, H, W) and mask of the same shape, batch size
\* 1 and H or W of 1 included.  (The claim as stated; cal_iou raises when a
\* dimension is 1.)
C5_SameResult ==
    (/\ res_cal # Pending
     /\ res_get # Pending
     /\ labels.shape = outputs.shape) => res_cal = res_get

\* per-sample IoU values of a result lie in [0, 1]
InUnitInterval(res) ==
    \A b \in 1..Len(res.iou) :
        /\ 0 <= res.iou[b][1]
        /\ res.iou[b][1] <= res.iou[b][2]

\* C6: for a logit tensor and a binary mask of equal shape every per-sample
\* IoU either function returns lies in [0, 1]: the intersection count never
\* exceeds the union count.
C6_IouInUnitInterval ==
    labels.shape = outputs.shape =>
        (InUnitInterval(res_cal) /\ InUnitInterval(res_get))

\* both functions returned, for equal shapes, an IoU strictly inside (0, 1)
\* that comes from a partial overlap
C6_Witness ==
    /\ labels.shape = outputs.shape
    /\ res_cal.err = "none"
    /\ res_get.err = "none"
    /\ \E b \in 1..Len(res_get.iou) :
        /\ res_get.iou[b][1] > 1
        /\ res_get.iou[b][1] < res_get.iou[b][2]
        /\ res_cal.iou[b] = res_get.iou[b]

\* flat positions of sample b of a (batch, 1, H, W) tensor
SamplePositions(shape, b) ==
    LET hw == shape[3] * shape[4]
    IN  ((b - 1) * hw + 1)..(b * hw)

\* the thresholded prediction (logit >= 0) of sample b is its ground truth
PredictionIsTruth(b) ==
    \A p \in SamplePositions(outputs.shape, b) :
        (outputs.data[p] >= 0) = (labels.data[p] # 0)

\* C7: a sample whose thresholded prediction mask equals its ground-truth
\* mask has IoU exactly 1, the all-background case (counts 0 and 0) included.
C7_EqualMasksGiveOne ==
    (labels.shape = outputs.shape /\ res_get.err = "none") =>
        \A b \in 1..outputs.shape[1] :
            PredictionIsTruth(b) => res_get.iou[b][1] = res_get.iou[b][2]

\* a batch with an all-background sample predicted all-background (IoU
\* (0 + eps)/(0 + eps)) and a sample with foreground predicted exactly
C7_Witness ==
    /\ labels.shape = outputs.shape
    /\ res_get.err = "none"
    /\ \E b \in 1..outputs.shape[1] :
        /\ PredictionIsTruth(b)
        /\ res_get.iou[b] = <<1, 1>>
    /\ \E b \in 1..outputs.shape[1] :
        /\ PredictionIsTruth(b)
        /\ res_get.iou[b][1] > 1

\* C8: when the mask's batch or spatial dimensions differ from the logits',
\* the metric raises and returns no IoU values.  (The claim as stated; a
\* dimension of 1 broadcasts.)
\* the claim's example is among the inputs: a mask of batch 1 against logits
\* of batch 2, for which get_iou_score returned two IoU values
C8_ExampleReached ==
    /\ outputs.shape = <<2, 1, 2, 2>>
    /\ labels.shape = <<1, 1, 2, 2>>
    /\ res_get.err = "none"
    /\ Len(res_get.iou) = 2

C8_MismatchRaises ==
    (res_get # Pending /\ labels.shape # outputs.shape) =>
        res_get.err # "none"

StepKinds == <<"train", "test", "update">>

\* the steps of n epochs in order: train, test, update of epoch 0, 1, ...
Expected(n) ==
    [k \in 1..(3 * n) |-> <<StepKinds[((k - 1) % 3) + 1], (k - 1) \div 3>>]

EpochsInOrder ==
    /\ Len(trace) <= 3 * epochs
    /\ trace = SubSeq(Expected(epochs), 1, Len(trace))
    /\ pc \in {"train", "test", "update"} =>
            (trace # <<>> /\ trace[Len(trace)] = <<pc, epoch>>)
    /\ pc = "for" => Len(trace) = 3 * epoch
    /\ pc = "Finished" =>
            (err = "none" /\ epoch = epochs /\ trace = Expected(epochs))

ExportDecision ==
    pc = "update" =>
        /\ attempts = Count(FracLt(max_train, test_iou))
        /\ epoch = 0 => attempts = 1

\* C10: the export of epoch k is attempted exactly when the epoch's mean
\* validation IoU is strictly greater than the highest training IoU of the
\* epochs before k (the sentinel -1 for k = 0); in epoch 0 it is always
\* attempted; and no step of the validation step writes the best score.
C10_ExportUsesEarlierBest ==
    /\ []ExportDecision
    /\ [][pc = "test" => best_iou' = best_iou]_vars

\* an export has replaced the snapshot of an epoch of higher validation IoU
C10_Witness ==
    /\ pc = "update"
    /\ epoch >= 1
    /\ export_result = "ok"
    /\ regressed

====
